---- MODULE Spec2Model ----
(***************************************************************************)
(* A model of rocodecs.py: the RISC OS alphabets as 8-bit codecs.          *)
(*                                                                         *)
(* An alphabet is built from the 256-entry decode table of a base          *)
(* encoding and an ordered list of code-point changes; its encode table is *)
(* the inversion of the decode table.  encode and decode convert one       *)
(* element at a time under one of the policies strict, ignore and replace. *)
(* custom_search_function finds a codec by name or by alphabet number.     *)
(*                                                                         *)
(* Characters are Unicode scalar values (integers), bytes are 0..255, and  *)
(* names are sequences of one-character strings.                           *)
(***************************************************************************)
EXTENDS Integers, Sequences, FiniteSets, TLC

VARIABLES build, riscos_alphabets, riscos_alphabets_map, obj, arg, call, result

vars == <<build, riscos_alphabets, riscos_alphabets_map, obj, arg, call, result>>

(***************************************************************************)
(* Bounds of the model.                                                    *)
(***************************************************************************)
\* longest text or byte string passed to encode and decode
MaxLen == 2
\* longest list of changes passed to the constructor
MaxLayers == 2

(***************************************************************************)
(* Program constants.                                                      *)
(***************************************************************************)
\* u'\ufffd', the replacement character
REPLACEMENT == 65533
\* ord('?')
QUESTION == 63
\* range(256)
base_array == 0 .. 255

(***************************************************************************)
(* The base encodings: the code points that Python's codec gives to the    *)
(* bytes 0xA1..0xFF, with 65533 where decoding with 'replace' finds no     *)
(* character.  Every one of them gives the bytes 0x00..0xA0 the code point *)
(* of the same number.                                                     *)
(***************************************************************************)
iso_8859_1_upper ==
  <<161, 162, 163, 164, 165, 166, 167, 168, 169, 170, 171, 172, 173, 174, 175, 176,
     177, 178, 179, 180, 181, 182, 183, 184, 185, 186, 187, 188, 189, 190, 191, 192,
     193, 194, 195, 196, 197, 198, 199, 200, 201, 202, 203, 204, 205, 206, 207, 208,
     209, 210, 211, 212, 213, 214, 215, 216, 217, 218, 219, 220, 221, 222, 223, 224,
     225, 226, 227, 228, 229, 230, 231, 232, 233, 234, 235, 236, 237, 238, 239, 240,
     241, 242, 243, 244, 245, 246, 247, 248, 249, 250, 251, 252, 253, 254, 255>>

iso_8859_2_upper ==
  <<260, 728, 321, 164, 317, 346, 167, 168, 352, 350, 356, 377, 173, 381, 379, 176,
     261, 731, 322, 180, 318, 347, 711, 184, 353, 351, 357, 378, 733, 382, 380, 340,
     193, 194, 258, 196, 313, 262, 199, 268, 201, 280, 203, 282, 205, 206, 270, 272,
     323, 327, 211, 212, 336, 214, 215, 344, 366, 218, 368, 220, 221, 354, 223, 341,
     225, 226, 259, 228, 314, 263, 231, 269, 233, 281, 235, 283, 237, 238, 271, 273,
     324, 328, 243, 244, 337, 246, 247, 345, 367, 250, 369, 252, 253, 355, 729>>

iso_8859_3_upper ==
  <<294, 728, 163, 164, 65533, 292, 167, 168, 304, 350, 286, 308, 173, 65533, 379, 176,
     295, 178, 179, 180, 181, 293, 183, 184, 305, 351, 287, 309, 189, 65533, 380, 192,
     193, 194, 65533, 196, 266, 264, 199, 200, 201, 202, 203, 204, 205, 206, 207, 65533,
     209, 210, 211, 212, 288, 214, 215, 284, 217, 218, 219, 220, 364, 348, 223, 224,
     225, 226, 65533, 228, 267, 265, 231, 232, 233, 234, 235, 236, 237, 238, 239, 65533,
     241, 242, 243, 244, 289, 246, 247, 285, 249, 250, 251, 252, 365, 349, 729>>

iso_8859_4_upper ==
  <<260, 312, 342, 164, 296, 315, 167, 168, 352, 274, 290, 358, 173, 381, 175, 176,
     261, 731, 343, 180, 297, 316, 711, 184, 353, 275, 291, 359, 330, 382, 331, 256,
     193, 194, 195, 196, 197, 198, 302, 268, 201, 280, 203, 278, 205, 206, 298, 272,
     325, 332, 310, 212, 213, 214, 215, 216, 370, 218, 219, 220, 360, 362, 223, 257,
     225, 226, 227, 228, 229, 230, 303, 269, 233, 281, 235, 279, 237, 238, 299, 273,
     326, 333, 311, 244, 245, 246, 247, 248, 371, 250, 251, 252, 361, 363, 729>>

iso_8859_5_upper ==
  <<1025, 1026, 1027, 1028, 1029, 1030, 1031, 1032, 1033, 1034, 1035, 1036, 173, 1038, 1039, 1040,
     1041, 1042, 1043, 1044, 1045, 1046, 1047, 1048, 1049, 1050, 1051, 1052, 1053, 1054, 1055, 1056,
     1057, 1058, 1059, 1060, 1061, 1062, 1063, 1064, 1065, 1066, 1067, 1068, 1069, 1070, 1071, 1072,
     1073, 1074, 1075, 1076, 1077, 1078, 1079, 1080, 1081, 1082, 1083, 1084, 1085, 1086, 1087, 1088,
     1089, 1090, 1091, 1092, 1093, 1094, 1095, 1096, 1097, 1098, 1099, 1100, 1101, 1102, 1103, 8470,
     1105, 1106, 1107, 1108, 1109, 1110, 1111, 1112, 1113, 1114, 1115, 1116, 167, 1118, 1119>>

iso_8859_6_upper ==
  <<65533, 65533, 65533, 164, 65533, 65533, 65533, 65533, 65533, 65533, 65533, 1548, 173, 65533, 65533, 65533,
     65533, 65533, 65533, 65533, 65533, 65533, 65533, 65533, 65533, 65533, 1563, 65533, 65533, 65533, 1567, 65533,
     1569, 1570, 1571, 1572, 1573, 1574, 1575, 1576, 1577, 1578, 1579, 1580, 1581, 1582, 1583, 1584,
     1585, 1586, 1587, 1588, 1589, 1590, 1591, 1592, 1593, 1594, 65533, 65533, 65533, 65533, 65533, 1600,
     1601, 1602, 1603, 1604, 1605, 1606, 1607, 1608, 1609, 1610, 1611, 1612, 1613, 1614, 1615, 1616,
     1617, 1618, 65533, 65533, 65533, 65533, 65533, 65533, 65533, 65533, 65533, 65533, 65533, 65533, 65533>>

iso_8859_7_upper ==
  <<8216, 8217, 163, 8364, 8367, 166, 167, 168, 169, 890, 171, 172, 173, 65533, 8213, 176,
     177, 178, 179, 900, 901, 902, 183, 904, 905, 906, 187, 908, 189, 910, 911, 912,
     913, 914, 915, 916, 917, 918, 919, 920, 921, 922, 923, 924, 925, 926, 927, 928,
     929, 65533, 931, 932, 933, 934, 935, 936, 937, 938, 939, 940, 941, 942, 943, 944,
     945, 946, 947, 948, 949, 950, 951, 952, 953, 954, 955, 956, 957, 958, 959, 960,
     961, 962, 963, 964, 965, 966, 967, 968, 969, 970, 971, 972, 973, 974, 65533>>

iso_8859_8_upper ==
  <<65533, 162, 163, 164, 165, 166, 167, 168, 169, 215, 171, 172, 173, 174, 175, 176,
     177, 178, 179, 180, 181, 182, 183, 184, 185, 247, 187, 188, 189, 190, 65533, 65533,
     65533, 65533, 65533, 65533, 65533, 65533, 65533, 65533, 65533, 65533, 65533, 65533, 65533, 65533, 65533, 65533,
     65533, 65533, 65533, 65533, 65533, 65533, 65533, 65533, 65533, 65533, 65533, 65533, 65533, 65533, 8215, 1488,
     1489, 1490, 1491, 1492, 1493, 1494, 1495, 1496, 1497, 1498, 1499, 1500, 1501, 1502, 1503, 1504,
     1505, 1506, 1507, 1508, 1509, 1510, 1511, 1512, 1513, 1514, 65533, 65533, 8206, 8207, 65533>>

iso_8859_9_upper ==
  <<161, 162, 163, 164, 165, 166, 167, 168, 169, 170, 171, 172, 173, 174, 175, 176,
     177, 178, 179, 180, 181, 182, 183, 184, 185, 186, 187, 188, 189, 190, 191, 192,
     193, 194, 195, 196, 197, 198, 199, 200, 201, 202, 203, 204, 205, 206, 207, 286,
     209, 210, 211, 212, 213, 214, 215, 216, 217, 218, 219, 220, 304, 350, 223, 224,
     225, 226, 227, 228, 229, 230, 231, 232, 233, 234, 235, 236, 237, 238, 239, 287,
     241, 242, 243, 244, 245, 246, 247, 248, 249, 250, 251, 252, 305, 351, 255>>

iso_8859_15_upper ==
  <<161, 162, 163, 8364, 165, 352, 167, 353, 169, 170, 171, 172, 173, 174, 175, 176,
     177, 178, 179, 381, 181, 182, 183, 382, 185, 186, 187, 338, 339, 376, 191, 192,
     193, 194, 195, 196, 197, 198, 199, 200, 201, 202, 203, 204, 205, 206, 207, 208,
     209, 210, 211, 212, 213, 214, 215, 216, 217, 218, 219, 220, 221, 222, 223, 224,
     225, 226, 227, 228, 229, 230, 231, 232, 233, 234, 235, 236, 237, 238, 239, 240,
     241, 242, 243, 244, 245, 246, 247, 248, 249, 250, 251, 252, 253, 254, 255>>

iso_8859_10_upper ==
  <<260, 274, 290, 298, 296, 310, 167, 315, 272, 352, 358, 381, 173, 362, 330, 176,
     261, 275, 291, 299, 297, 311, 183, 316, 273, 353, 359, 382, 8213, 363, 331, 256,
     193, 194, 195, 196, 197, 198, 302, 268, 201, 280, 203, 278, 205, 206, 207, 208,
     325, 332, 211, 212, 213, 214, 360, 216, 370, 218, 219, 220, 221, 222, 223, 257,
     225, 226, 227, 228, 229, 230, 303, 269, 233, 281, 235, 279, 237, 238, 239, 240,
     326, 333, 243, 244, 245, 246, 361, 248, 371, 250, 251, 252, 253, 254, 312>>

iso_8859_13_upper ==
  <<8221, 162, 163, 164, 8222, 166, 167, 216, 169, 342, 171, 172, 173, 174, 198, 176,
     177, 178, 179, 8220, 181, 182, 183, 248, 185, 343, 187, 188, 189, 190, 230, 260,
     302, 256, 262, 196, 197, 280, 274, 268, 201, 377, 278, 290, 310, 298, 315, 352,
     323, 325, 211, 332, 213, 214, 215, 370, 321, 346, 362, 220, 379, 381, 223, 261,
     303, 257, 263, 228, 229, 281, 275, 269, 233, 378, 279, 291, 311, 299, 316, 353,
     324, 326, 243, 333, 245, 246, 247, 371, 322, 347, 363, 252, 380, 382, 8217>>

iso_8859_14_upper ==
  <<7682, 7683, 163, 266, 267, 7690, 167, 7808, 169, 7810, 7691, 7922, 173, 174, 376, 7710,
     7711, 288, 289, 7744, 7745, 182, 7766, 7809, 7767, 7811, 7776, 7923, 7812, 7813, 7777, 192,
     193, 194, 195, 196, 197, 198, 199, 200, 201, 202, 203, 204, 205, 206, 207, 372,
     209, 210, 211, 212, 213, 214, 7786, 216, 217, 218, 219, 220, 221, 374, 223, 224,
     225, 226, 227, 228, 229, 230, 231, 232, 233, 234, 235, 236, 237, 238, 239, 373,
     241, 242, 243, 244, 245, 246, 7787, 248, 249, 250, 251, 252, 253, 375, 255>>

iso_8859_16_upper ==
  <<260, 261, 321, 8364, 8222, 352, 167, 353, 169, 536, 171, 377, 173, 378, 379, 176,
     177, 268, 322, 381, 8221, 182, 183, 382, 269, 537, 187, 338, 339, 376, 380, 192,
     193, 194, 258, 196, 262, 198, 199, 200, 201, 202, 203, 204, 205, 206, 207, 272,
     323, 210, 211, 212, 336, 214, 346, 368, 217, 218, 219, 220, 280, 538, 223, 224,
     225, 226, 259, 228, 263, 230, 231, 232, 233, 234, 235, 236, 237, 238, 239, 273,
     324, 242, 243, 244, 337, 246, 347, 369, 249, 250, 251, 252, 281, 539, 255>>

(***************************************************************************)
(* The changes applied on top of the base encodings.                       *)
(***************************************************************************)
c1_changes ==
  128 :> 8364 @@ 129 :> 372 @@ 130 :> 373 @@ 131 :> 9712 @@ 132 :> 65533 @@ 133 :> 374
  @@ 134 :> 375 @@ 135 :> 65533 @@ 136 :> 8678 @@ 137 :> 8680 @@ 138 :> 8681 @@ 139 :> 8679
  @@ 140 :> 8230 @@ 141 :> 8482 @@ 142 :> 8240 @@ 143 :> 8226 @@ 144 :> 8216 @@ 145 :> 8217
  @@ 146 :> 8249 @@ 147 :> 8250 @@ 148 :> 8220 @@ 149 :> 8221 @@ 150 :> 8222 @@ 151 :> 8211
  @@ 152 :> 8212 @@ 153 :> 8722 @@ 154 :> 338 @@ 155 :> 339 @@ 156 :> 8224 @@ 157 :> 8225
  @@ 158 :> 64257 @@ 159 :> 64258

welsh_changes ==
  168 :> 7808 @@ 170 :> 7810 @@ 172 :> 7922 @@ 175 :> 376 @@ 184 :> 7809 @@ 186 :> 7811
  @@ 188 :> 7923 @@ 189 :> 7812 @@ 190 :> 7813 @@ 208 :> 372 @@ 222 :> 374 @@ 241 :> 373
  @@ 254 :> 375

iso8859_3_changes ==
  165 :> 165 @@ 174 :> 174 @@ 190 :> 190 @@ 195 :> 195 @@ 208 :> 208 @@ 227 :> 227
  @@ 240 :> 240

iso8859_6_changes ==
  [codepoint \in {161, 162, 163, 165, 166, 167, 168, 169, 170, 171, 174, 175, 176, 177, 178, 179,
     180, 181, 182, 183, 184, 185, 186, 188, 189, 190, 192, 219, 220, 221, 222, 223,
     243, 244, 245, 246, 247, 248, 249, 250, 251, 252, 253, 254, 255} |-> REPLACEMENT]

iso8859_7_changes ==
  [codepoint \in {170, 174, 210, 255} |-> REPLACEMENT]

iso8859_8_changes ==
  [codepoint \in {161, 191, 192, 193, 194, 195, 196, 197, 198, 199, 200, 201, 202, 203, 204, 205,
     206, 207, 208, 209, 210, 211, 212, 213, 214, 215, 216, 217, 218, 219, 220, 221,
     222, 251, 252, 255} |-> REPLACEMENT]

(***************************************************************************)
(* Names.                                                                  *)
(***************************************************************************)
RiscosDash == <<"r", "i", "s", "c", "o", "s", "-">>

AlphabetPrefix == RiscosDash \o <<"a", "l", "p", "h", "a", "b", "e", "t", "-">>

Latin == <<"l", "a", "t", "i", "n">>

Utf8Name == <<"u", "t", "f", "-", "8">>

UpperHalf(base_encoding) ==
  CASE base_encoding = "iso-8859-1" -> iso_8859_1_upper
    [] base_encoding = "iso-8859-2" -> iso_8859_2_upper
    [] base_encoding = "iso-8859-3" -> iso_8859_3_upper
    [] base_encoding = "iso-8859-4" -> iso_8859_4_upper
    [] base_encoding = "iso-8859-5" -> iso_8859_5_upper
    [] base_encoding = "iso-8859-6" -> iso_8859_6_upper
    [] base_encoding = "iso-8859-7" -> iso_8859_7_upper
    [] base_encoding = "iso-8859-8" -> iso_8859_8_upper
    [] base_encoding = "iso-8859-9" -> iso_8859_9_upper
    [] base_encoding = "iso-8859-10" -> iso_8859_10_upper
    [] base_encoding = "iso-8859-13" -> iso_8859_13_upper
    [] base_encoding = "iso-8859-14" -> iso_8859_14_upper
    [] base_encoding = "iso-8859-15" -> iso_8859_15_upper
    [] base_encoding = "iso-8859-16" -> iso_8859_16_upper

(***************************************************************************)
(* Python values.  The byte stream given to bytearray holds ints, and strs *)
(* of zero or one character.                                               *)
(***************************************************************************)
PyInt(n) == [type |-> "int", val |-> <<n>>]

PyStr(s) == [type |-> "str", val |-> s]

(***************************************************************************)
(* The builds the module runs on.  major is sys.version_info.major.        *)
(* identity tells what `nc is u'\ufffd'` gives when nc is a replacement    *)
(* character: "never" when every string is an object of its own, "const"   *)
(* when the equal constants of the module are one object (so that it holds *)
(* of an entry assigned from a literal of the changes, and not of one made *)
(* by the base decoder), "value" when the interpreter compares             *)
(* one-character strings by value.                                         *)
(***************************************************************************)
Builds == [major : {2, 3}, identity : {"never", "const", "value"}]

\* nc is u'\ufffd', for the entry at index c of the decode table of self
IsSentinel(b, self, c) ==
  /\ self.decode_table[c] = REPLACEMENT
  /\ CASE b.identity = "never" -> FALSE
       [] b.identity = "const" -> c \in self.literals
       [] b.identity = "value" -> TRUE

(***************************************************************************)
(* RISCOSAlphabet.__init__                                                 *)
(***************************************************************************)
\* list(self.base_array.decode(base_encoding, 'replace'))
BaseDecode(base_encoding) ==
  LET upper == UpperHalf(base_encoding)
      first == 256 - Len(upper)
  IN  [index \in base_array |->
         IF index < first THEN index ELSE upper[index - first + 1]]

\* for codepoint, value in change.items(): self.decode_table[codepoint] = value
ApplyChange(decode_table, change) ==
  [index \in base_array |->
     IF index \in DOMAIN change
       THEN change[index]
       ELSE decode_table[index]]

RECURSIVE ApplyChangesEarlierWins(_, _)
\* a constructor that lets the first change of a code point stand
ApplyChangesEarlierWins(decode_table, changes) ==
  IF changes = <<>>
    THEN decode_table
    ELSE ApplyChange(ApplyChangesEarlierWins(decode_table, Tail(changes)),
                     Head(changes))

RECURSIVE ApplyChanges(_, _)
\* for change in changes: ...
ApplyChanges(decode_table, changes) ==
  IF changes = <<>>
    THEN decode_table
    ELSE ApplyChanges(ApplyChange(decode_table, Head(changes)), Tail(changes))

\* the indices whose entry is an object taken from the changes
Assigned(changes) == UNION {DOMAIN changes[k] : k \in 1 .. Len(changes)}

\* d[key] = value on a dict
DictSet(d, key, value) == (key :> value) @@ d

RECURSIVE InvertRangeFirstWins(_, _, _)
\* an inversion that keeps the first index of a character
InvertRangeFirstWins(decode_table, lo, hi) ==
  IF lo = hi
    THEN decode_table[lo] :> lo
    ELSE LET mid == (lo + hi) \div 2
         IN  InvertRangeFirstWins(decode_table, lo, mid)
               @@ InvertRangeFirstWins(decode_table, mid + 1, hi)

RECURSIVE InvertRangeFromOne(_, _, _)
\* an inversion that counts the indices from 1: enumerate(..., 1)
InvertRangeFromOne(decode_table, lo, hi) ==
  IF lo = hi
    THEN decode_table[lo] :> (lo + 1)
    ELSE LET mid == (lo + hi) \div 2
         IN  InvertRangeFromOne(decode_table, mid + 1, hi)
               @@ InvertRangeFromOne(decode_table, lo, mid)

RECURSIVE InvertRange(_, _, _)
\* {char: (index) for index, char in enumerate(self.decode_table)} over the
\* indices lo..hi: f @@ g keeps the entry of f where both have one, so the
\* entry of a later index replaces that of an earlier index under the same
\* character, as successive assignments to the dict do
InvertRange(decode_table, lo, hi) ==
  IF lo = hi
    THEN decode_table[lo] :> lo
    ELSE LET mid == (lo + hi) \div 2
         IN  InvertRange(decode_table, mid + 1, hi) @@ InvertRange(decode_table, lo, mid)

InvertTable(decode_table) == InvertRange(decode_table, 0, 255)

\* codecs.CodecInfo(self.encode, self.decode, name=name): the codec is
\* known by the alphabet whose bound methods it holds
CodecInfo(alphabet, name) == [owner |-> alphabet, name |-> name]

\* codecs.lookup('utf-8'): the codec of the standard library
StdlibUtf8 == [owner |-> 0, name |-> Utf8Name]

\* the None that a failed search returns
None == [owner |-> -1, name |-> <<>>]

RISCOSAlphabet(alphabet, name, base_encoding, changes) ==
  LET layers == IF changes = <<>> THEN << <<>> >> ELSE changes
      decode_table == ApplyChanges(BaseDecode(base_encoding), layers)
  IN  [cls |-> "RISCOSAlphabet",
       alphabet |-> alphabet,
       name |-> name,
       base_encoding |-> base_encoding,
       decode_table |-> decode_table,
       literals |-> Assigned(layers),
       encode_table |-> InvertTable(decode_table),
       codec |-> CodecInfo(alphabet, name)]

\* RISCOSUTF8.__init__ builds no table and no policy readers
RISCOSUTF8(alphabet, name) ==
  [cls |-> "RISCOSUTF8",
   alphabet |-> alphabet,
   name |-> name,
   base_encoding |-> "utf-8",
   decode_table |-> <<>>,
   literals |-> {},
   encode_table |-> <<>>,
   codec |-> StdlibUtf8]

\* the module's list riscos_alphabets
ModuleAlphabets ==
  << RISCOSAlphabet(101, RiscosDash \o Latin \o <<"1">>, "iso-8859-1", <<c1_changes>>),
     RISCOSAlphabet(102, RiscosDash \o Latin \o <<"2">>, "iso-8859-2", <<c1_changes>>),
     RISCOSAlphabet(103, RiscosDash \o Latin \o <<"3">>, "iso-8859-3", <<c1_changes, iso8859_3_changes>>),
     RISCOSAlphabet(104, RiscosDash \o Latin \o <<"4">>, "iso-8859-4", <<c1_changes>>),
     RISCOSAlphabet(105, RiscosDash \o <<"c", "y", "r", "i", "l", "l", "i", "c">>, "iso-8859-5", <<c1_changes>>),
     RISCOSAlphabet(106, RiscosDash \o <<"a", "r", "a", "b", "i", "c">>, "iso-8859-6", <<c1_changes, iso8859_6_changes>>),
     RISCOSAlphabet(107, RiscosDash \o <<"g", "r", "e", "e", "k">>, "iso-8859-7", <<c1_changes, iso8859_7_changes>>),
     RISCOSAlphabet(108, RiscosDash \o <<"h", "e", "b", "r", "e", "w">>, "iso-8859-8", <<c1_changes, iso8859_8_changes>>),
     RISCOSAlphabet(109, RiscosDash \o Latin \o <<"5">>, "iso-8859-9", <<c1_changes>>),
     RISCOSAlphabet(110, RiscosDash \o <<"w", "e", "l", "s", "h">>, "iso-8859-1", <<c1_changes, welsh_changes>>),
     RISCOSUTF8(111, RiscosDash \o <<"u", "t", "f", "8">>),
     RISCOSAlphabet(112, RiscosDash \o Latin \o <<"9">>, "iso-8859-15", <<c1_changes>>),
     RISCOSAlphabet(113, RiscosDash \o Latin \o <<"6">>, "iso-8859-10", <<c1_changes>>),
     RISCOSAlphabet(114, RiscosDash \o Latin \o <<"7">>, "iso-8859-13", <<c1_changes>>),
     RISCOSAlphabet(115, RiscosDash \o Latin \o <<"8">>, "iso-8859-14", <<c1_changes>>),
     RISCOSAlphabet(116, RiscosDash \o Latin \o <<"1", "0">>, "iso-8859-16", <<c1_changes>>) >>

\* {encoding.name: encoding.codec for encoding in riscos_alphabets}
RECURSIVE NameMap(_, _, _)
NameMap(alphabets, index, table) ==
  IF index > Len(alphabets)
    THEN table
    ELSE NameMap(alphabets, index + 1,
                 DictSet(table, alphabets[index].name, alphabets[index].codec))

(***************************************************************************)
(* What a call gives back: exc is "" for a return, else the class of the   *)
(* exception raised; out and len are the pair that encode and decode       *)
(* return; codec is what a search returns; what and at are the offending   *)
(* element and its position when the exception carries them.               *)
(***************************************************************************)
Return(out, length) ==
  [exc |-> "", out |-> out, len |-> length, codec |-> None, what |-> -1, at |-> -1]

Raise(exc) ==
  [exc |-> exc, out |-> <<>>, len |-> 0, codec |-> None, what |-> -1, at |-> -1]

Found(codec) ==
  [exc |-> "", out |-> <<>>, len |-> 0, codec |-> codec, what |-> -1, at |-> -1]

\* UnicodeEncodeError(...) and UnicodeDecodeError(...): the constructor takes
\* (encoding, object, start, end, reason) and refuses any other argument list
UnicodeError(cls, args) ==
  IF Len(args) = 5
    THEN [exc |-> cls, out |-> <<>>, len |-> 0, codec |-> None,
          what |-> args[2], at |-> args[3]]
    ELSE Raise("TypeError")

\* what a reader gives for one element: a value, or an exception
Value(v) == [raised |-> FALSE, value |-> v, error |-> Raise("")]

Throw(error) == [raised |-> TRUE, value |-> PyStr(<<>>), error |-> error]

Policies == {"strict", "ignore", "replace"}

TableBased(self) == self.cls = "RISCOSAlphabet"

(***************************************************************************)
(* encode                                                                  *)
(***************************************************************************)
\* self.encode_table.get(c, default)
EncodeGet(self, c, default) ==
  IF c \in DOMAIN self.encode_table
    THEN PyInt(self.encode_table[c])
    ELSE default

_encode_strict(self, c) ==
  IF c \in DOMAIN self.encode_table
    THEN Value(PyInt(self.encode_table[c]))
    ELSE Throw(UnicodeError("UnicodeEncodeError", <<"Cannot encode character">>))

_encode_ignore(self, c) == Value(EncodeGet(self, c, PyStr(<<>>)))

_encode_replace(self, c) == Value(EncodeGet(self, c, PyStr(<<QUESTION>>)))

\* self.encode_readers[errors]
encode_readers(self, errors, c) ==
  CASE errors = "strict" -> _encode_strict(self, c)
    [] errors = "ignore" -> _encode_ignore(self, c)
    [] errors = "replace" -> _encode_replace(self, c)

\* one item of the iterable given to bytearray(): Python 3 takes integers
\* in range(256) only, Python 2 also takes a str of exactly one character
ByteOf(b, item) ==
  CASE item.type = "int" ->
         IF item.val[1] \in base_array
           THEN Value(item.val[1])
           ELSE Throw(Raise("ValueError"))
    [] item.type = "str" /\ b.major = 3 -> Throw(Raise("TypeError"))
    [] item.type = "str" /\ b.major = 2 ->
         IF Len(item.val) = 1
           THEN Value(item.val[1])
           ELSE Throw(Raise("ValueError"))

RECURSIVE EncodeFrom(_, _, _, _, _, _)
\* bytearray(encoder(char) for char in text), one element at a time
EncodeFrom(b, self, text, errors, k, out) ==
  IF k > Len(text)
    THEN Return(out, Len(text))
    ELSE LET item == encode_readers(self, errors, text[k])
         IN  IF item.raised
               THEN item.error
               ELSE LET byte == ByteOf(b, item.value)
                    IN  IF byte.raised
                          THEN byte.error
                          ELSE EncodeFrom(b, self, text, errors, k + 1,
                                          Append(out, byte.value))

encode(b, self, text, errors) ==
  IF ~TableBased(self)
    THEN Raise("AttributeError")
    ELSE IF errors \notin Policies
      THEN Raise("KeyError")
      ELSE EncodeFrom(b, self, text, errors, 1, <<>>)

(***************************************************************************)
(* decode                                                                  *)
(***************************************************************************)
_decode_strict(b, self, c) ==
  LET nc == self.decode_table[c]
  IN  IF IsSentinel(b, self, c)
        THEN Throw(UnicodeError("UnicodeDecodeError", <<"Cannot decode character">>))
        ELSE Value(<<nc>>)

_decode_ignore(b, self, c) ==
  LET nc == self.decode_table[c]
  IN  IF IsSentinel(b, self, c)
        THEN Value(<<>>)
        ELSE Value(<<nc>>)

\* a replace reader that drops the unmapped byte as the ignore reader does
DecodeReplaceDropping(b, self, c) ==
  IF self.decode_table[c] = REPLACEMENT
    THEN Value(<<>>)
    ELSE Value(<<self.decode_table[c]>>)

_decode_replace(b, self, c) == Value(<<self.decode_table[c]>>)

\* self.decode_readers[errors]
decode_readers(b, self, errors, c) ==
  CASE errors = "strict" -> _decode_strict(b, self, c)
    [] errors = "ignore" -> _decode_ignore(b, self, c)
    [] errors = "replace" -> _decode_replace(b, self, c)

RECURSIVE DecodeFrom(_, _, _, _, _, _)
\* ''.join(decoder(x) for x in binary), one element at a time; Python 2
\* gives the decoder ord(x), which is the same byte value
DecodeFrom(b, self, binary, errors, k, out) ==
  IF k > Len(binary)
    THEN Return(out, Len(binary))
    ELSE LET item == decode_readers(b, self, errors, binary[k])
         IN  IF item.raised
               THEN item.error
               ELSE DecodeFrom(b, self, binary, errors, k + 1, out \o item.value)

decode(b, self, binary, errors) ==
  IF ~TableBased(self)
    THEN Raise("AttributeError")
    ELSE IF errors \notin Policies
      THEN Raise("KeyError")
      ELSE DecodeFrom(b, self, binary, errors, 1, <<>>)

(***************************************************************************)
(* custom_search_function                                                  *)
(***************************************************************************)
\* encoding_name.startswith(prefix)
StartsWith(s, prefix) ==
  /\ Len(s) >= Len(prefix)
  /\ SubSeq(s, 1, Len(prefix)) = prefix

Digits == <<"0", "1", "2", "3", "4", "5", "6", "7", "8", "9">>

DigitValue(d) == (CHOOSE k \in 1 .. 10 : Digits[k] = d) - 1

IsDigit(d) == \E k \in 1 .. 10 : Digits[k] = d

RECURSIVE Strip(_)
\* the surrounding white space that int() ignores
Strip(s) ==
  IF s = <<>> THEN s
  ELSE IF Head(s) = " " THEN Strip(Tail(s))
  ELSE IF s[Len(s)] = " " THEN Strip(SubSeq(s, 1, Len(s) - 1))
  ELSE s

RECURSIVE Horner(_, _)
Horner(s, acc) ==
  IF s = <<>> THEN acc ELSE Horner(Tail(s), 10 * acc + DigitValue(Head(s)))

\* int(number): white space, an optional sign, then decimal digits
int(number) ==
  LET s == Strip(number)
      signed == s # <<>> /\ Head(s) \in {"+", "-"}
      digits == IF signed THEN Tail(s) ELSE s
  IN  IF digits = <<>> \/ \E k \in 1 .. Len(digits) : ~IsDigit(digits[k])
        THEN [raised |-> TRUE, value |-> 0]
        ELSE [raised |-> FALSE,
              value |-> IF signed /\ Head(s) = "-"
                          THEN 0 - Horner(digits, 0)
                          ELSE Horner(digits, 0)]

\* riscos_alphabets_map.get(encoding_name, None)
MapGet(map, encoding_name) ==
  IF encoding_name \in DOMAIN map THEN map[encoding_name] ELSE None

RECURSIVE FirstWithNumber(_, _, _)
\* for encoding in riscos_alphabets: if encoding.alphabet == alphabet_number
FirstWithNumber(alphabets, alphabet_number, index) ==
  IF index > Len(alphabets) THEN 0
  ELSE IF alphabets[index].alphabet = alphabet_number THEN index
  ELSE FirstWithNumber(alphabets, alphabet_number, index + 1)

\* a search that knows the names only
SearchByNameOnly(alphabets, map, encoding_name) == MapGet(map, encoding_name)

custom_search_function(alphabets, map, encoding_name) ==
  IF StartsWith(encoding_name, AlphabetPrefix)
    THEN LET number == SubSeq(encoding_name, Len(AlphabetPrefix) + 1, Len(encoding_name))
             parsed == int(number)
             index == FirstWithNumber(alphabets, parsed.value, 1)
         IN  IF parsed.raised THEN None
             ELSE IF index > 0 THEN alphabets[index].codec
             ELSE MapGet(map, encoding_name)
    ELSE MapGet(map, encoding_name)

(***************************************************************************)
(* The state: the build, the module's registry, an alphabet built by a     *)
(* caller (obj), the caller's data (arg), and the last call and what it    *)
(* gave back.                                                              *)
(***************************************************************************)
NoObject ==
  [cls |-> "None", alphabet |-> 0, name |-> <<>>, base_encoding |-> "",
   decode_table |-> <<>>, literals |-> {}, encode_table |-> <<>>, codec |-> None]

NoArg == [kind |-> "none", self |-> 0, input |-> <<>>]

NoCall ==
  [op |-> "none", self |-> 0, input |-> <<>>, errors |-> "",
   base_encoding |-> "", changes |-> <<>>]

\* the object a call is made on: 0 is obj, k > 0 is riscos_alphabets[k]
Deref(ref) == IF ref = 0 THEN obj ELSE riscos_alphabets[ref]

\* an encode that remembers '?' in the table of the alphabet for every
\* character it did not find: setdefault in place of get
EncodeRemembering(ref, text, errors) ==
  /\ Deref(ref).cls # "None"
  /\ call' = [op |-> "encode", self |-> ref, input |-> text, errors |-> errors,
              base_encoding |-> "", changes |-> <<>>]
  /\ result' = encode(build, Deref(ref), text, errors)
  /\ riscos_alphabets' =
       [k \in DOMAIN riscos_alphabets |->
          IF k = ref /\ TableBased(riscos_alphabets[k])
            THEN [riscos_alphabets[k] EXCEPT !.encode_table =
                    [c \in (DOMAIN @) \cup {text[j] : j \in 1 .. Len(text)} |->
                       IF c \in DOMAIN @ THEN @[c] ELSE QUESTION]]
            ELSE riscos_alphabets[k]]
  /\ UNCHANGED <<build, riscos_alphabets_map, obj, arg>>

Encode(ref, text, errors) ==
  /\ Deref(ref).cls # "None"
  /\ call' = [op |-> "encode", self |-> ref, input |-> text, errors |-> errors,
              base_encoding |-> "", changes |-> <<>>]
  /\ result' = encode(build, Deref(ref), text, errors)
  /\ UNCHANGED <<build, riscos_alphabets, riscos_alphabets_map, obj, arg>>

Decode(ref, binary, errors) ==
  /\ Deref(ref).cls # "None"
  /\ call' = [op |-> "decode", self |-> ref, input |-> binary, errors |-> errors,
              base_encoding |-> "", changes |-> <<>>]
  /\ result' = decode(build, Deref(ref), binary, errors)
  /\ UNCHANGED <<build, riscos_alphabets, riscos_alphabets_map, obj, arg>>

Search(encoding_name) ==
  /\ call' = [op |-> "search", self |-> 0, input |-> encoding_name, errors |-> "",
              base_encoding |-> "", changes |-> <<>>]
  /\ result' = Found(custom_search_function(riscos_alphabets, riscos_alphabets_map,
                                            encoding_name))
  /\ UNCHANGED <<build, riscos_alphabets, riscos_alphabets_map, obj, arg>>

\* the name a caller gives to an alphabet of its own
UserName == RiscosDash \o <<"u", "s", "e", "r">>

NewAlphabet(base_encoding, changes) ==
  /\ obj = NoObject
  /\ obj' = RISCOSAlphabet(200, UserName, base_encoding, changes)
  /\ call' = [op |-> "new", self |-> 0, input |-> <<>>, errors |-> "",
              base_encoding |-> base_encoding, changes |-> changes]
  /\ result' = Return(<<>>, 0)
  /\ UNCHANGED <<build, riscos_alphabets, riscos_alphabets_map, arg>>

(***************************************************************************)
(* Inputs.                                                                 *)
(***************************************************************************)
SeqUpTo(S, n) == UNION {[1 .. k -> S] : k \in 0 .. n}

\* 'A', the euro sign (byte 0x80 of every alphabet), a CJK character that
\* no alphabet has, and the replacement character
SampleChars == {65, 8364, 20013, REPLACEMENT}

\* 'A', the bytes 0x84 and 0x87 that the C1 changes leave unmapped, and 0xD0,
\* which the Welsh changes make a second W circumflex
SampleBytes == {65, 132, 135, 208}

Texts == SeqUpTo(SampleChars, MaxLen)

Binaries == SeqUpTo(SampleBytes, MaxLen) \cup {<<byte>> : byte \in base_array}

ErrorsArgs == Policies \cup {"xmlcharrefreplace"}

\* the alphabets a session calls: Latin1, Greek, Welsh and UTF8
SessionRefs == {1, 7, 10, 11}

TableRefs == {ref \in 1 .. Len(ModuleAlphabets) : TableBased(ModuleAlphabets[ref])}

RECURSIVE Decimal(_)
\* str(n) for n >= 0
Decimal(n) ==
  IF n < 10 THEN <<Digits[n + 1]>> ELSE Decimal(n \div 10) \o <<Digits[(n % 10) + 1]>>

SearchNames ==
  {ModuleAlphabets[k].name : k \in 1 .. Len(ModuleAlphabets)}
    \cup {AlphabetPrefix \o Decimal(n) : n \in 100 .. 117}
    \cup {AlphabetPrefix, Latin \o <<"1">>, Utf8Name,
          AlphabetPrefix \o <<"x">>,
          AlphabetPrefix \o <<"1", "0", "1", "x">>,
          AlphabetPrefix \o <<"0", "1", "0", "1">>,
          AlphabetPrefix \o <<" ", "+", "1", "0", "1", " ">>,
          AlphabetPrefix \o <<"-", "1", "0", "1">>}

SessionTexts == {<<65>>, <<20013>>, <<65, REPLACEMENT>>}

SessionBinaries == {<<65>>, <<135>>, <<208, 132>>}

\* the lists of changes a caller builds an alphabet from
LayerA == 128 :> 65 @@ 65 :> REPLACEMENT

LayerB == 128 :> 66 @@ 132 :> 9712

Layers == {c1_changes, welsh_changes, LayerA, LayerB}

\* what a caller probes an alphabet of its own with
ProbeChars == {65, REPLACEMENT}

ProbeBytes == {128, 165}

CtorBases == {"iso-8859-1", "iso-8859-3"}

(***************************************************************************)
(* Specifications.                                                         *)
(***************************************************************************)
\* the state once the module is imported
Init ==
  /\ build \in Builds
  /\ riscos_alphabets = ModuleAlphabets
  /\ riscos_alphabets_map = NameMap(ModuleAlphabets, 1, <<>>)
  /\ obj = NoObject
  /\ arg = NoArg
  /\ call = NoCall
  /\ result = Raise("")

\* any calls in any order
Next ==
  \/ \E ref \in SessionRefs, text \in SessionTexts, errors \in ErrorsArgs :
       Encode(ref, text, errors)
  \/ \E ref \in SessionRefs, binary \in SessionBinaries, errors \in ErrorsArgs :
       Decode(ref, binary, errors)
  \/ \E encoding_name \in SearchNames : Search(encoding_name)

Spec == Init /\ [][Next]_vars

\* a caller that holds one text or one byte string for one alphabet
InitApply ==
  /\ build \in Builds
  /\ riscos_alphabets = ModuleAlphabets
  /\ riscos_alphabets_map = NameMap(ModuleAlphabets, 1, <<>>)
  /\ obj = NoObject
  /\ \/ arg \in [kind : {"binary"}, self : TableRefs, input : Binaries]
     \/ arg \in [kind : {"text"}, self : TableRefs, input : Texts]
  /\ call = NoCall
  /\ result = Raise("")

DecodeArg(errors) ==
  /\ arg.kind = "binary"
  /\ call.op = "none"
  /\ Decode(arg.self, arg.input, errors)

EncodeArg(errors) ==
  /\ arg.kind = "text"
  /\ call.op = "none"
  /\ Encode(arg.self, arg.input, errors)

\* binary.decode(...) then text.encode(...), as manual_test.py does
EncodeResult(errors) ==
  /\ call.op = "decode"
  /\ call.errors = errors
  /\ result.exc = ""
  /\ Encode(call.self, result.out, errors)

NextApply ==
  \/ \E errors \in Policies : DecodeArg(errors)
  \/ \E errors \in Policies : EncodeArg(errors)
  \/ \E errors \in Policies : EncodeResult(errors)

SpecApply == InitApply /\ [][NextApply]_vars

\* a caller that builds an alphabet of its own and probes it
NextBuild ==
  \/ \E base_encoding \in CtorBases, changes \in SeqUpTo(Layers, MaxLayers) :
       NewAlphabet(base_encoding, changes)
  \/ \E c \in ProbeChars, errors \in Policies : Encode(0, <<c>>, errors)
  \/ \E byte \in ProbeBytes, errors \in Policies : Decode(0, <<byte>>, errors)

SpecBuild == Init /\ [][NextBuild]_vars

(***************************************************************************)
(* Properties.                                                             *)
(***************************************************************************)
\* the alphabets with tables that the state holds: those of the registry
\* and the one the caller built
TableAlphabets ==
  {riscos_alphabets[k] : k \in {j \in DOMAIN riscos_alphabets : TableBased(riscos_alphabets[j])}}
    \cup (IF obj.cls = "RISCOSAlphabet" THEN {obj} ELSE {})

\* the greatest element of a non-empty set of integers
Highest(S) == CHOOSE x \in S : \A y \in S : y <= x

\* the bytes that the alphabet decodes to the same character as byte
Colliders(self, byte) ==
  {other \in base_array : self.decode_table[other] = self.decode_table[byte]}

\* C1: the replacement character U+FFFD is never a key of the encode table of
\* a built alphabet, and encoding a text that holds U+FFFD under strict fails
\* as for any unmappable character.
C1_SentinelNeverEncoded ==
  /\ \A self \in TableAlphabets : REPLACEMENT \notin DOMAIN self.encode_table
  /\ (/\ call.op = "encode"
      /\ call.errors = "strict"
      /\ TableBased(Deref(call.self))
      /\ \E k \in 1 .. Len(call.input) : call.input[k] = REPLACEMENT)
       => result.exc # ""

\* C2: decoding one byte that the table maps, under strict, succeeds, and
\* encoding the character it gives under strict with the same alphabet
\* gives back one byte that decodes to that character; it is the byte
\* decoded whenever no other byte of the table decodes to the same
\* character.
C2_RoundTripStep ==
  LET self == riscos_alphabets[call'.self]
      byte == call'.input[1]
      decoded ==
        /\ call'.op = "decode"
        /\ call'.errors = "strict"
        /\ Len(call'.input) = 1
        /\ self.decode_table[byte] # REPLACEMENT
      reencoded ==
        /\ call.op = "decode"
        /\ call.errors = "strict"
        /\ Len(call.input) = 1
        /\ riscos_alphabets[call.self].decode_table[call.input[1]] # REPLACEMENT
        /\ call'.op = "encode"
        /\ call'.errors = "strict"
        /\ call'.self = call.self
        /\ call'.input = result.out
  IN  /\ decoded =>
           /\ result'.exc = ""
           /\ result'.out = <<self.decode_table[byte]>>
      /\ reencoded =>
           /\ result'.exc = ""
           /\ Len(result'.out) = 1
           /\ result'.out[1] \in Colliders(self, call.input[1])
           /\ Colliders(self, call.input[1]) = {call.input[1]}
                => result'.out = call.input

C2_RoundTrip == [][C2_RoundTripStep]_vars

\* the euro sign of Latin1 (byte 0x80) has been decoded and encoded back
C2_Witness ==
  /\ arg = [kind |-> "binary", self |-> 1, input |-> <<128>>]
  /\ call.op = "encode"
  /\ call.errors = "strict"
  /\ call.input = <<8364>>
  /\ result.exc = ""
  /\ result.out = <<128>>

\* what the claims say a character gives under a policy that never fails
MappedOr(self, c, default) ==
  IF c \in DOMAIN self.encode_table THEN <<self.encode_table[c]>> ELSE default

RECURSIVE Expected(_, _, _)
\* the bytes of a text, character by character, in the order of the text
Expected(self, text, default) ==
  IF text = <<>>
    THEN <<>>
    ELSE MappedOr(self, Head(text), default) \o Expected(self, Tail(text), default)

\* C3: encoding under replace never fails; every character without an entry
\* in the encode table gives the byte 0x3F, every other character gives its
\* byte, and the output has one byte for each character, in order.
C3_EncodeReplace ==
  (/\ call.op = "encode"
   /\ call.errors = "replace"
   /\ TableBased(Deref(call.self)))
    => /\ result.exc = ""
       /\ Len(result.out) = Len(call.input)
       /\ result.out = Expected(Deref(call.self), call.input, <<QUESTION>>)

\* C4: encoding under ignore never fails and gives exactly the bytes of the
\* characters that have an entry in the encode table, in order.
C4_EncodeIgnore ==
  (/\ call.op = "encode"
   /\ call.errors = "ignore"
   /\ TableBased(Deref(call.self)))
    => /\ result.exc = ""
       /\ result.out = Expected(Deref(call.self), call.input, <<>>)

\* the positions of a byte string whose byte the alphabet leaves unmapped
Unmapped(self, binary) ==
  {k \in 1 .. Len(binary) : self.decode_table[binary[k]] = REPLACEMENT}

\* C5: a strict decode of a byte string that holds a byte whose entry is
\* U+FFFD fails with a UnicodeDecodeError that carries the first such byte
\* and its position; for an alphabet built with the C1 changes and a byte
\* string that starts with 0x87 that is byte 0x87 at position 0.
C5_StrictDecodeFailure ==
  LET self == Deref(call.self)
      first == CHOOSE k \in Unmapped(self, call.input) :
                 \A j \in Unmapped(self, call.input) : k <= j
  IN  (/\ call.op = "decode"
       /\ call.errors = "strict"
       /\ TableBased(self)
       /\ Unmapped(self, call.input) # {})
        => /\ result.exc = "UnicodeDecodeError"
           /\ result.what = call.input[first]
           /\ result.at = first - 1
           /\ call.input[1] = 135 => (result.what = 135 /\ result.at = 0)

\* C6: the decode table of an alphabet built from a base encoding and a list
\* of changes has, at every byte, the value of the last change of the list
\* that defines the byte, and the value of the base encoding when no change
\* defines it.
C6_OverridePrecedence ==
  call.op = "new" =>
    \A byte \in base_array :
      LET defining == {k \in 1 .. Len(call.changes) : byte \in DOMAIN call.changes[k]}
      IN  obj.decode_table[byte] =
            IF defining = {}
              THEN BaseDecode(call.base_encoding)[byte]
              ELSE call.changes[Highest(defining)][byte]

\* two changes that both define byte 0x80 were applied, and the later stands
C6_Witness ==
  /\ call.op = "new"
  /\ call.changes = <<LayerA, LayerB>>
  /\ obj.decode_table[128] = LayerB[128]
  /\ obj.decode_table[65] = LayerA[65]
  /\ obj.decode_table[66] = BaseDecode(call.base_encoding)[66]

\* C7: in every built alphabet the encode table gives to a character the
\* highest byte that decodes to it, so that decoding the byte of any key of
\* the encode table gives the key back.
C7_HighestByteWins ==
  \A self \in TableAlphabets :
    /\ \A byte \in base_array :
         /\ self.decode_table[byte] \in DOMAIN self.encode_table
         /\ self.encode_table[self.decode_table[byte]] >= byte
    /\ \A c \in DOMAIN self.encode_table :
         /\ self.encode_table[c] \in base_array
         /\ self.decode_table[self.encode_table[c]] = c

\* an alphabet with the C1 and the Welsh changes: the bytes 0x81 and 0xD0 are
\* both W circumflex, which encodes to 0xD0
C7_Witness ==
  /\ obj.cls = "RISCOSAlphabet"
  /\ obj.decode_table[129] = 372
  /\ obj.decode_table[208] = 372
  /\ obj.encode_table[372] = 208

\* C8: decoding under replace never fails and gives one character for each
\* byte, in order: the entry of the byte in the decode table, which is U+FFFD
\* for every unmapped byte, the byte 0x84 among them.
C8_DecodeReplace ==
  LET self == Deref(call.self)
  IN  (/\ call.op = "decode"
       /\ call.errors = "replace"
       /\ TableBased(self))
        => /\ result.exc = ""
           /\ Len(result.out) = Len(call.input)
           /\ result.len = Len(call.input)
           /\ \A k \in 1 .. Len(call.input) :
                /\ result.out[k] = self.decode_table[call.input[k]]
                /\ call.input[k] = 132 => result.out[k] = REPLACEMENT

\* the bytes 0x84 and 'A' were decoded under replace
C8_Witness ==
  /\ call.op = "decode"
  /\ call.errors = "replace"
  /\ call.input = <<132, 65>>
  /\ result.exc = ""
  /\ result.out = <<REPLACEMENT, 65>>

\* C9: for every alphabet of the registry, a search for its name and a
\* search for 'riscos-alphabet-' followed by its number in decimal return the
\* same codec, which is the codec of that alphabet.
C9_DualLookupStep ==
  \A k \in DOMAIN riscos_alphabets :
    (/\ call.op = "search"
     /\ call'.op = "search"
     /\ call.input = riscos_alphabets[k].name
     /\ call'.input = AlphabetPrefix \o Decimal(riscos_alphabets[k].alphabet))
      => /\ result'.codec = result.codec
         /\ result'.codec = riscos_alphabets[k].codec
         /\ result'.codec # None

C9_DualLookup == [][C9_DualLookupStep]_vars

\* 'riscos-alphabet-101' was searched and gave the codec of riscos-latin1
C9_Witness ==
  /\ call.op = "search"
  /\ call.input = AlphabetPrefix \o <<"1", "0", "1">>
  /\ result.codec = riscos_alphabets[1].codec
  /\ riscos_alphabets[1].name = RiscosDash \o Latin \o <<"1">>
  /\ result.codec = MapGet(riscos_alphabets_map, riscos_alphabets[1].name)

\* C10: no call of encode, decode or custom_search_function changes a table
\* of an alphabet or the registry, and what a call gives depends on its
\* arguments only: it is what the call gives on the registry as the module
\* built it.
C10_ImmutableStep ==
  /\ riscos_alphabets' = riscos_alphabets
  /\ riscos_alphabets_map' = riscos_alphabets_map
  /\ call'.op = "encode" =>
       result' = encode(build, ModuleAlphabets[call'.self], call'.input, call'.errors)
  /\ call'.op = "decode" =>
       result' = decode(build, ModuleAlphabets[call'.self], call'.input, call'.errors)
  /\ call'.op = "search" =>
       result'.codec = custom_search_function(ModuleAlphabets,
                         NameMap(ModuleAlphabets, 1, <<>>), call'.input)

C10_Immutable == [][C10_ImmutableStep]_vars

\* a call has failed and the registry is as the module built it
C10_Witness ==
  /\ call.op = "encode"
  /\ call.input = <<20013>>
  /\ result.exc # ""
  /\ riscos_alphabets = ModuleAlphabets

====
